---- MODULE Spec2Model ----
(***************************************************************************)
(* Penny Game: the room/session state machine and batch-flow engine of     *)
(* src/api/app (game_logic.py driven through the handlers of routes.py).   *)
(* One room is modelled; every handler is one atomic action.               *)
(***************************************************************************)
EXTENDS Integers, Sequences, FiniteSets, TLC

(***************************************************************************)
(* Bounds of the model.  The program plays with 15 coins, at most 5        *)
(* players and thresholds of 5 and 60 minutes; the model scales them down. *)
(***************************************************************************)
\* number of coins of a round (the program: DEFAULT_BATCH_SIZES[0] = 15)
TOTAL_COINS == 3
\* roster limit (the program: 5); also the upper limit of required_players
MAX_PLAYERS == 3
\* the clock runs from 0 to MaxTime
MaxTime == 2
\* a player may be idle for less than this many ticks (the program: 5 minutes)
PLAYER_INACTIVITY_THRESHOLD == 1
\* successful sends recorded per player and round before the model stops sending
MaxBatches == 3
\* round results recorded before the model stops completing rounds
MaxResults == 2
\* role changes the model issues
MaxRoleChanges == 1
\* a room may be idle for this many ticks (the program: 60 minutes)
ROOM_INACTIVITY_THRESHOLD == 1
\* players the timed specification lets into the room
ClockPlayers == 2

\* Optional[datetime] / Optional[float] / Optional[int] = None
NoTime == -1

\* Optional[str] = None
NoUser == "none"

\* usernames; a fresh joiner takes the first unused one (names are interchangeable)
Names == <<"h", "a", "b", "c">>

Users == {Names[i] : i \in 1..Len(Names)}

\* GameState
LOBBY == "lobby"

ACTIVE == "active"

ROUND_COMPLETE == "round_complete"

RESULTS == "results"

\* RoundType members
SINGLE == "SINGLE"

TWO_ROUNDS == "TWO_ROUNDS"

THREE_ROUNDS == "THREE_ROUNDS"

RoundTypes == {SINGLE, TWO_ROUNDS, THREE_ROUNDS}

\* PennyGame.Config.use_enum_values: a RoundType handed to the constructor is
\* stored as its value, the plain string, which equals no RoundType member
RAW_THREE_ROUNDS == "three_rounds"

\* the id of the room
Room == "room"

\* the host_secret cookie a caller presents
HostSecret == "secret"

Cookies == {"secret", "wrong", "absent"}

VARIABLES
    players,            \* game.players: the chain, a sequence of usernames
    spectators,         \* game.spectators
    host,               \* game.host
    state,              \* game.state
    round_type,         \* game.round_type
    required_players,   \* game.required_players
    selected_batch_size,\* game.selected_batch_size (0 = None)
    current_round,      \* game.current_round
    batch_size,         \* game.batch_size
    round_results,      \* game.round_results
    player_coins,       \* game.player_coins: username -> sequence of BOOLEAN (TRUE = heads)
    sent_coins,         \* game.sent_coins: username -> sequence of batches
    player_timers,      \* game.player_timers: username -> timer
    started_at,         \* game.started_at
    ended_at,           \* game.ended_at
    game_duration_seconds,
    first_flip_at,
    first_delivery_at,
    lead_time_seconds,
    last_active_at,
    games,              \* the room ids of the games registry
    now,                \* the wall clock datetime.now() reads
    role_changes,       \* role changes carried out so far
    rooms,              \* the connection registry: room id -> connected clients
    online_users,       \* the online-user registry: room id -> usernames
    in_flight           \* the request that has passed its checks and not yet acted

vars == <<players, spectators, host, state, round_type, required_players,
          selected_batch_size, current_round, batch_size, round_results,
          player_coins, sent_coins, player_timers, started_at, ended_at,
          game_duration_seconds, first_flip_at, first_delivery_at,
          lead_time_seconds, last_active_at, games, now,
          role_changes, rooms, online_users, in_flight>>

(***************************************************************************)
(* Python helpers                                                          *)
(***************************************************************************)
\* x in list
InSeq(x, s) == \E i \in 1..Len(s) : s[i] = x

\* list.index(x) as a 0-based position
IndexOf(x, s) == (CHOOSE i \in 1..Len(s) : s[i] = x /\ \A j \in 1..(i - 1) : s[j] # x) - 1

\* list.remove(x): drops the first occurrence
RemoveFirst(x, s) ==
    LET i == IndexOf(x, s) + 1
    IN  SubSeq(s, 1, i - 1) \o SubSeq(s, i + 1, Len(s))

\* dict[k] = v
Put(d, k, v) == [x \in (DOMAIN d) \cup {k} |-> IF x = k THEN v ELSE d[x]]

\* {k: v for k in keys}
EmptyDict == [x \in {} |-> 0]

\* dict.pop(k, None)
Pop(d, k) == [x \in (DOMAIN d) \ {k} |-> d[x]]

\* [False] * n, [True] * n
Repeat(v, n) == [i \in 1..n |-> v]

\* sum(1 for coin in coins if coin)
RECURSIVE CountHeads(_)
CountHeads(coins) ==
    IF coins = <<>> THEN 0
    ELSE (IF Head(coins) THEN 1 ELSE 0) + CountHeads(Tail(coins))

Min(a, b) == IF a < b THEN a ELSE b

(***************************************************************************)
(* The session as one value: the handlers below are functions of it.       *)
(***************************************************************************)
G == [players |-> players, spectators |-> spectators, host |-> host,
      state |-> state, round_type |-> round_type,
      required_players |-> required_players,
      selected_batch_size |-> selected_batch_size,
      current_round |-> current_round, batch_size |-> batch_size,
      round_results |-> round_results, player_coins |-> player_coins,
      sent_coins |-> sent_coins, player_timers |-> player_timers,
      started_at |-> started_at, ended_at |-> ended_at,
      game_duration_seconds |-> game_duration_seconds,
      first_flip_at |-> first_flip_at, first_delivery_at |-> first_delivery_at,
      lead_time_seconds |-> lead_time_seconds, last_active_at |-> last_active_at]

\* PlayerTimer(player=player)
NewTimer == [started_at |-> NoTime, ended_at |-> NoTime, duration_seconds |-> NoTime]

\* no request between its checks and its action
NoRequest == [op |-> "none", username |-> NoUser, coin_index |-> 0]

(***************************************************************************)
(* constants.py                                                            *)
(***************************************************************************)
\* get_valid_batch_sizes(): the divisors of the total
ValidSizes(total) == {i \in 1..total : total % i = 0}

get_valid_batch_sizes == ValidSizes(TOTAL_COINS)

\* the middle element of DEFAULT_BATCH_SIZES = [15, 5, 1]: the largest proper divisor
MiddleBatch(total) == CHOOSE d \in ValidSizes(total) \ {total} :
                        \A e \in ValidSizes(total) \ {total} : e <= d

DEFAULT_BATCH_SIZES == <<TOTAL_COINS, MiddleBatch(TOTAL_COINS), 1>>

DEFAULT_BATCH_SIZE == TOTAL_COINS

DEFAULT_REQUIRED_PLAYERS == MAX_PLAYERS

ROUND_TYPE_BATCH_SIZES == [three_rounds |-> DEFAULT_BATCH_SIZES,
                           two_rounds |-> <<TOTAL_COINS, 1>>]

(***************************************************************************)
(* game_logic.py                                                           *)
(***************************************************************************)
get_total_rounds(rt) ==
    CASE rt = SINGLE -> 1
      [] rt = TWO_ROUNDS -> 2
      [] rt = THREE_ROUNDS -> 3
      [] OTHER -> 1

get_batch_sizes_for_round_type(rt, sbs) ==
    CASE rt = SINGLE -> IF sbs # 0 THEN <<sbs>> ELSE <<TOTAL_COINS>>
      [] rt = TWO_ROUNDS -> ROUND_TYPE_BATCH_SIZES.two_rounds
      [] rt = THREE_ROUNDS -> ROUND_TYPE_BATCH_SIZES.three_rounds
      [] OTHER -> <<TOTAL_COINS>>

\* a variant that looks at the player's own coins only, not at the players before
has_no_coins(g, player) ==
    player \in DOMAIN g.player_coins /\ Len(g.player_coins[player]) = 0

has_player_finished(g, player) ==
    IF player \notin DOMAIN g.player_coins THEN FALSE
    ELSE IF Len(g.player_coins[player]) > 0 THEN FALSE
    ELSE \A i \in 1..IndexOf(player, g.players) :
            LET previous_player == g.players[i]
            IN  previous_player \in DOMAIN g.player_coins
                    => Len(g.player_coins[previous_player]) = 0

\* a variant that counts the last player's completed batches instead of their coins
get_total_completed_batches(g) ==
    IF g.players = <<>> THEN 0
    ELSE LET last_player == g.players[Len(g.players)]
         IN  IF last_player \notin DOMAIN g.sent_coins THEN 0
             ELSE Cardinality({i \in 1..Len(g.sent_coins[last_player]) :
                                  g.sent_coins[last_player][i].to_player = "COMPLETED"})

get_total_completed_coins(g) ==
    IF g.players = <<>> THEN 0
    ELSE LET last_player == g.players[Len(g.players)]
             RECURSIVE Sum(_)
             Sum(batches) ==
                 IF batches = <<>> THEN 0
                 ELSE (IF Head(batches).to_player = "COMPLETED"
                       THEN Head(batches).count ELSE 0) + Sum(Tail(batches))
         IN  IF last_player \notin DOMAIN g.sent_coins THEN 0
             ELSE Sum(g.sent_coins[last_player])

is_round_over(g) ==
    IF g.players = <<>> THEN FALSE
    ELSE \/ get_total_completed_coins(g) >= TOTAL_COINS
         \/ \A i \in 1..Len(g.players) : has_player_finished(g, g.players[i])

_end_timer_if_running(timer) ==
    IF timer.started_at # NoTime /\ timer.ended_at = NoTime
    THEN [timer EXCEPT !.ended_at = now, !.duration_seconds = now - timer.started_at]
    ELSE timer

\* a variant that stamps the start time again at every flip
start_player_timer_restamp(g, player) ==
    LET timers == IF player \in DOMAIN g.player_timers THEN g.player_timers
                  ELSE Put(g.player_timers, player, NewTimer)
    IN  [g EXCEPT !.player_timers = [timers EXCEPT ![player].started_at = now],
                  !.first_flip_at = IF g.first_flip_at = NoTime THEN now
                                    ELSE g.first_flip_at]

start_player_timer(g, player) ==
    LET timers == IF player \in DOMAIN g.player_timers THEN g.player_timers
                  ELSE Put(g.player_timers, player, NewTimer)
    IN  IF timers[player].started_at = NoTime
        THEN [g EXCEPT !.player_timers = [timers EXCEPT ![player].started_at = now],
                       !.first_flip_at = IF g.first_flip_at = NoTime THEN now
                                         ELSE g.first_flip_at]
        ELSE [g EXCEPT !.player_timers = timers]

end_player_timer(g, player) ==
    IF player \notin DOMAIN g.player_timers THEN g
    ELSE LET timer == g.player_timers[player]
         IN  IF /\ timer.started_at # NoTime
                /\ timer.ended_at = NoTime
                /\ has_player_finished(g, player)
             THEN [g EXCEPT !.player_timers[player] =
                      [timer EXCEPT !.ended_at = now,
                                    !.duration_seconds = now - timer.started_at]]
             ELSE g

\* ending one player's timer changes nobody's coins, so the loop over the roster
\* is a fold in roster order
RECURSIVE EndFinishedFrom(_, _)
EndFinishedFrom(g, i) ==
    IF i > Len(g.players) THEN g
    ELSE EndFinishedFrom(IF has_player_finished(g, g.players[i])
                         THEN end_player_timer(g, g.players[i]) ELSE g, i + 1)

\* a variant that looks at the first chain player only
check_and_end_first_finished_timer(g) ==
    IF g.players # <<>> /\ has_player_finished(g, g.players[1])
    THEN end_player_timer(g, g.players[1])
    ELSE g

check_and_end_all_finished_timers(g) == EndFinishedFrom(g, 1)

\* a variant that starts the player's timer before it looks at the coin
flip_coin_timer_first(g, player, coin_index) ==
    IF player \notin DOMAIN g.player_coins THEN [ok |-> FALSE, g |-> g]
    ELSE LET g1 == start_player_timer(g, player)
         IN  IF coin_index >= Len(g.player_coins[player]) \/ coin_index < 0
             THEN [ok |-> FALSE, g |-> g1]
             ELSE IF g.player_coins[player][coin_index + 1] THEN [ok |-> FALSE, g |-> g1]
             ELSE [ok |-> TRUE,
                   g |-> [g1 EXCEPT !.player_coins[player][coin_index + 1] = TRUE]]

\* ok: the function's return value; g: the session it leaves
flip_coin(g, player, coin_index) ==
    IF player \notin DOMAIN g.player_coins THEN [ok |-> FALSE, g |-> g]
    ELSE IF coin_index >= Len(g.player_coins[player]) \/ coin_index < 0
         THEN [ok |-> FALSE, g |-> g]
    ELSE IF g.player_coins[player][coin_index + 1] THEN [ok |-> FALSE, g |-> g]
    ELSE LET g1 == start_player_timer(g, player)
         IN  [ok |-> TRUE,
              g |-> [g1 EXCEPT !.player_coins[player][coin_index + 1] = TRUE]]

\* a variant that needs more heads than the batch size
can_send_batch_above_size(g, player) ==
    IF player \notin DOMAIN g.player_coins THEN FALSE
    ELSE CountHeads(g.player_coins[player]) > g.batch_size

can_send_batch(g, player) ==
    IF player \notin DOMAIN g.player_coins THEN FALSE
    ELSE LET heads_count == CountHeads(g.player_coins[player])
         IN  heads_count >= g.batch_size \/ heads_count = Len(g.player_coins[player])

\* the coins taken: the first `limit` heads in sequence order
RECURSIVE TakeHeads(_, _)
TakeHeads(coins, limit) ==
    IF coins = <<>> THEN <<>>
    ELSE IF Head(coins) /\ limit > 0 THEN <<Head(coins)>> \o TakeHeads(Tail(coins), limit - 1)
    ELSE TakeHeads(Tail(coins), limit)

\* the coins kept: everything else, in its order
RECURSIVE KeepRest(_, _)
KeepRest(coins, limit) ==
    IF coins = <<>> THEN <<>>
    ELSE IF Head(coins) /\ limit > 0 THEN KeepRest(Tail(coins), limit - 1)
    ELSE <<Head(coins)>> \o KeepRest(Tail(coins), limit)

\* a variant that takes the first batch_size coins whatever side they show
_prepare_batch_transfer_first(g, player) ==
    LET coins == g.player_coins[player]
        n == Min(g.batch_size, Len(coins))
    IN  <<SubSeq(coins, 1, n), SubSeq(coins, n + 1, Len(coins))>>

\* (coins_to_send, remaining_coins)
_prepare_batch_transfer(g, player) ==
    <<TakeHeads(g.player_coins[player], g.batch_size),
      KeepRest(g.player_coins[player], g.batch_size)>>

\* (completed_coins, remaining_coins)
_prepare_completion_transfer(coins, coins_to_complete) ==
    <<TakeHeads(coins, coins_to_complete), KeepRest(coins, coins_to_complete)>>

_record_sent_batch(g, player, count, to_player) ==
    LET sent == IF player \in DOMAIN g.sent_coins THEN g.sent_coins
                ELSE Put(g.sent_coins, player, <<>>)
    IN  [g EXCEPT !.sent_coins =
            [sent EXCEPT ![player] =
                Append(@, [count |-> count, timestamp |-> now, to_player |-> to_player])]]

\* a variant that measures the lead time from the sender's own first flip
send_to_completion_own_flip(g, player) ==
    IF player # g.players[Len(g.players)] THEN [ok |-> FALSE, g |-> g]
    ELSE LET coins == g.player_coins[player]
             heads_count == CountHeads(coins)
             coins_to_complete == Min(heads_count, g.batch_size)
             first == coins_to_complete > 0 /\ g.first_delivery_at = NoTime
             g1 == IF first
                   THEN [g EXCEPT !.first_delivery_at = now,
                                  !.lead_time_seconds =
                                      IF g.first_flip_at # NoTime
                                      THEN now - g.player_timers[player].started_at
                                      ELSE g.lead_time_seconds]
                   ELSE g
             parts == _prepare_completion_transfer(coins, coins_to_complete)
             g2 == [g1 EXCEPT !.player_coins[player] = parts[2]]
             g3 == _record_sent_batch(g2, player, Len(parts[1]), "COMPLETED")
         IN  IF heads_count = 0 THEN [ok |-> FALSE, g |-> g]
             ELSE [ok |-> TRUE, g |-> check_and_end_all_finished_timers(g3)]

send_to_completion(g, player) ==
    IF player # g.players[Len(g.players)] THEN [ok |-> FALSE, g |-> g]
    ELSE LET coins == g.player_coins[player]
             heads_count == CountHeads(coins)
             coins_to_complete == Min(heads_count, g.batch_size)
             first == coins_to_complete > 0 /\ g.first_delivery_at = NoTime
             g1 == IF first
                   THEN [g EXCEPT !.first_delivery_at = now,
                                  !.lead_time_seconds =
                                      IF g.first_flip_at # NoTime
                                      THEN now - g.first_flip_at
                                      ELSE g.lead_time_seconds]
                   ELSE g
             parts == _prepare_completion_transfer(coins, coins_to_complete)
             g2 == [g1 EXCEPT !.player_coins[player] = parts[2]]
             g3 == _record_sent_batch(g2, player, Len(parts[1]), "COMPLETED")
         IN  IF heads_count = 0 THEN [ok |-> FALSE, g |-> g]
             ELSE [ok |-> TRUE, g |-> check_and_end_all_finished_timers(g3)]

send_batch(g, player) ==
    IF ~can_send_batch(g, player) THEN [ok |-> FALSE, g |-> g]
    ELSE LET player_index == IndexOf(player, g.players)
         IN  IF player_index = Len(g.players) - 1
             THEN LET r == send_to_completion(g, player)
                  IN  IF r.ok
                      THEN [ok |-> TRUE, g |-> check_and_end_all_finished_timers(r.g)]
                      ELSE r
             ELSE LET next_player == g.players[player_index + 2]
                      parts == _prepare_batch_transfer(g, player)
                      g1 == [g EXCEPT !.player_coins[player] = parts[2]]
                      coins1 == IF next_player \in DOMAIN g1.player_coins
                                THEN g1.player_coins
                                ELSE Put(g1.player_coins, next_player, <<>>)
                      g2 == [g1 EXCEPT !.player_coins =
                                [coins1 EXCEPT ![next_player] =
                                    @ \o Repeat(FALSE, Len(parts[1]))]]
                      g3 == _record_sent_batch(g2, player, Len(parts[1]), next_player)
                  IN  [ok |-> TRUE, g |-> check_and_end_all_finished_timers(g3)]

\* The RoundResult that complete_current_round builds
RoundResultOf(g) ==
    [round_number |-> g.current_round,
     batch_size |-> g.batch_size,
     game_duration_seconds |-> g.game_duration_seconds,
     lead_time_seconds |-> g.lead_time_seconds,
     first_flip_at |-> g.first_flip_at,
     first_delivery_at |-> g.first_delivery_at,
     player_timers |-> g.player_timers,
     total_completed |-> get_total_completed_coins(g),
     started_at |-> g.started_at,
     ended_at |-> g.ended_at]

complete_current_round(g) ==
    IF g.state # ACTIVE THEN g
    ELSE LET g1 == IF g.started_at # NoTime /\ g.ended_at = NoTime
                   THEN [g EXCEPT !.ended_at = now,
                                  !.game_duration_seconds = now - g.started_at]
                   ELSE g
             g2 == [g1 EXCEPT !.player_timers =
                        [p \in DOMAIN g1.player_timers |->
                            _end_timer_if_running(g1.player_timers[p])]]
         IN  [g2 EXCEPT !.round_results = Append(@, RoundResultOf(g2))]

\* the response of a rejected action
Rejected(error) ==
    [success |-> FALSE, error |-> error, round_complete |-> FALSE, game_over |-> FALSE]

_build_action_response(g, round_complete, game_over) ==
    [success |-> TRUE, error |-> "", round_complete |-> round_complete,
     game_over |-> game_over]

\* what follows a successful flip or send: the round-over check
AfterAction(g) ==
    LET round_complete == is_round_over(g)
        g1 == IF round_complete THEN complete_current_round(g) ELSE g
        game_over == round_complete /\ g1.state = RESULTS
    IN  [resp |-> _build_action_response(g1, round_complete, game_over), g |-> g1]

\* a variant that does not look the player up in the roster
process_flip_any_player(g, player, coin_index) ==
    IF g.state # ACTIVE THEN [resp |-> Rejected("Game is not active"), g |-> g]
    ELSE IF g.players = <<>> THEN [resp |-> Rejected("No players in game"), g |-> g]
    ELSE LET r == flip_coin(g, player, coin_index)
         IN  IF ~r.ok THEN [resp |-> Rejected("Cannot flip this coin"), g |-> r.g]
             ELSE AfterAction(check_and_end_all_finished_timers(
                                 [r.g EXCEPT !.last_active_at = now]))

process_flip(g, player, coin_index) ==
    IF g.state # ACTIVE THEN [resp |-> Rejected("Game is not active"), g |-> g]
    ELSE IF g.players = <<>> THEN [resp |-> Rejected("No players in game"), g |-> g]
    ELSE IF ~InSeq(player, g.players)
         THEN [resp |-> Rejected("Player not in game"), g |-> g]
    ELSE LET r == flip_coin(g, player, coin_index)
         IN  IF ~r.ok THEN [resp |-> Rejected("Cannot flip this coin"), g |-> r.g]
             ELSE AfterAction(check_and_end_all_finished_timers(
                                 [r.g EXCEPT !.last_active_at = now]))

process_send(g, player) ==
    IF g.state # ACTIVE THEN [resp |-> Rejected("Game is not active"), g |-> g]
    ELSE IF g.players = <<>> THEN [resp |-> Rejected("No players in game"), g |-> g]
    ELSE IF ~InSeq(player, g.players)
         THEN [resp |-> Rejected("Player not in game"), g |-> g]
    ELSE LET r == send_batch(g, player)
         IN  IF ~r.ok THEN [resp |-> Rejected("Cannot send batch"), g |-> r.g]
             ELSE AfterAction([r.g EXCEPT !.last_active_at = now])

_initialize_player_timers(g) ==
    [g EXCEPT !.player_timers =
        [p \in (DOMAIN g.player_timers) \cup {g.players[i] : i \in 1..Len(g.players)} |->
            IF InSeq(p, g.players) THEN NewTimer ELSE g.player_timers[p]]]

\* a variant that hands the units to the last chain position
initialize_player_coins_last(g, is_new_round) ==
    IF g.players = <<>> THEN g
    ELSE LET roster_set == {g.players[i] : i \in 1..Len(g.players)}
             first_player == g.players[Len(g.players)]
             g1 == [g EXCEPT !.player_coins =
                        [p \in roster_set |->
                            IF p = first_player THEN Repeat(FALSE, TOTAL_COINS) ELSE <<>>],
                             !.sent_coins = [p \in roster_set |-> <<>>]]
             g2 == _initialize_player_timers(g1)
         IN  IF is_new_round
             THEN [g2 EXCEPT !.first_flip_at = NoTime, !.first_delivery_at = NoTime,
                             !.lead_time_seconds = NoTime]
             ELSE g2

initialize_player_coins(g, is_new_round) ==
    IF g.players = <<>> THEN g
    ELSE LET roster_set == {g.players[i] : i \in 1..Len(g.players)}
             first_player == g.players[1]
             g1 == [g EXCEPT !.player_coins =
                        [p \in roster_set |->
                            IF p = first_player THEN Repeat(FALSE, TOTAL_COINS) ELSE <<>>],
                             !.sent_coins = [p \in roster_set |-> <<>>]]
             g2 == _initialize_player_timers(g1)
         IN  IF is_new_round
             THEN [g2 EXCEPT !.first_flip_at = NoTime, !.first_delivery_at = NoTime,
                             !.lead_time_seconds = NoTime]
             ELSE g2

\* a variant that starts a round from any lifecycle state
start_next_round_any_state(g) ==
    LET batch_sizes == get_batch_sizes_for_round_type(g.round_type, g.selected_batch_size)
    IN  IF g.current_round >= Len(batch_sizes) THEN [ok |-> FALSE, g |-> g]
        ELSE LET g1 == [g EXCEPT !.current_round = g.current_round + 1,
                                 !.batch_size = batch_sizes[g.current_round + 1],
                                 !.started_at = now,
                                 !.ended_at = NoTime,
                                 !.game_duration_seconds = NoTime,
                                 !.last_active_at = now,
                                 !.state = ACTIVE]
                 g2 == initialize_player_coins(g1, TRUE)
             IN  [ok |-> TRUE,
                  g |-> [g2 EXCEPT !.first_flip_at = NoTime, !.first_delivery_at = NoTime,
                                   !.lead_time_seconds = NoTime]]

start_next_round(g) ==
    LET batch_sizes == get_batch_sizes_for_round_type(g.round_type, g.selected_batch_size)
    IN  IF g.state \notin {LOBBY, ROUND_COMPLETE} THEN [ok |-> FALSE, g |-> g]
        ELSE IF g.current_round >= Len(batch_sizes) THEN [ok |-> FALSE, g |-> g]
        ELSE LET g1 == [g EXCEPT !.current_round = g.current_round + 1,
                                 !.batch_size = batch_sizes[g.current_round + 1],
                                 !.started_at = now,
                                 !.ended_at = NoTime,
                                 !.game_duration_seconds = NoTime,
                                 !.last_active_at = now,
                                 !.state = ACTIVE]
                 g2 == initialize_player_coins(g1, TRUE)
             IN  [ok |-> TRUE,
                  g |-> [g2 EXCEPT !.first_flip_at = NoTime, !.first_delivery_at = NoTime,
                                   !.lead_time_seconds = NoTime]]

\* a variant that takes the selected batch size without looking for a divisor
set_round_config_any_size(g, rt, rp, sbs) ==
    IF g.state # LOBBY THEN [ok |-> FALSE, g |-> g]
    ELSE IF rt = SINGLE /\ sbs = 0 THEN [ok |-> FALSE, g |-> g]
    ELSE IF rp < 2 \/ rp > MAX_PLAYERS THEN [ok |-> FALSE, g |-> g]
    ELSE [ok |-> TRUE,
          g |-> [g EXCEPT !.round_type = rt, !.required_players = rp,
                          !.selected_batch_size = sbs, !.current_round = 0,
                          !.round_results = <<>>]]

\* a variant that reconfigures in any lifecycle state
set_round_config_any_state(g, rt, rp, sbs) ==
    IF rt = SINGLE /\ sbs = 0 THEN [ok |-> FALSE, g |-> g]
    ELSE IF sbs # 0 /\ sbs \notin get_valid_batch_sizes THEN [ok |-> FALSE, g |-> g]
    ELSE IF rp < 2 \/ rp > MAX_PLAYERS THEN [ok |-> FALSE, g |-> g]
    ELSE [ok |-> TRUE,
          g |-> [g EXCEPT !.round_type = rt, !.required_players = rp,
                          !.selected_batch_size = sbs, !.current_round = 0,
                          !.round_results = <<>>]]

\* a variant that counts the rounds from 1 after a reconfiguration
set_round_config_round_one(g, rt, rp, sbs) ==
    IF g.state # LOBBY THEN [ok |-> FALSE, g |-> g]
    ELSE IF rt = SINGLE /\ sbs = 0 THEN [ok |-> FALSE, g |-> g]
    ELSE IF sbs # 0 /\ sbs \notin get_valid_batch_sizes THEN [ok |-> FALSE, g |-> g]
    ELSE IF rp < 2 \/ rp > MAX_PLAYERS THEN [ok |-> FALSE, g |-> g]
    ELSE [ok |-> TRUE,
          g |-> [g EXCEPT !.round_type = rt, !.required_players = rp,
                          !.selected_batch_size = sbs, !.current_round = 1,
                          !.round_results = <<>>]]

set_round_config(g, rt, rp, sbs) ==
    IF g.state # LOBBY THEN [ok |-> FALSE, g |-> g]
    ELSE IF rt = SINGLE /\ sbs = 0 THEN [ok |-> FALSE, g |-> g]
    ELSE IF sbs # 0 /\ sbs \notin get_valid_batch_sizes THEN [ok |-> FALSE, g |-> g]
    ELSE IF rp < 2 \/ rp > MAX_PLAYERS THEN [ok |-> FALSE, g |-> g]
    ELSE [ok |-> TRUE,
          g |-> [g EXCEPT !.round_type = rt, !.required_players = rp,
                          !.selected_batch_size = sbs, !.current_round = 0,
                          !.round_results = <<>>]]

\* a variant that leaves the start time of the finished game in place
reset_game_keeps_started_at(g) ==
    [g EXCEPT !.state = LOBBY, !.ended_at = NoTime,
              !.batch_size = DEFAULT_BATCH_SIZE, !.player_coins = EmptyDict,
              !.sent_coins = EmptyDict, !.player_timers = EmptyDict,
              !.game_duration_seconds = NoTime, !.current_round = 0,
              !.round_results = <<>>, !.last_active_at = now,
              !.first_flip_at = NoTime, !.first_delivery_at = NoTime,
              !.lead_time_seconds = NoTime]

\* a variant that leaves the ledger and the send history of the finished game in place
reset_game_keeps_ledger(g) ==
    [g EXCEPT !.state = LOBBY, !.started_at = NoTime, !.ended_at = NoTime,
              !.batch_size = DEFAULT_BATCH_SIZE, !.player_timers = EmptyDict,
              !.game_duration_seconds = NoTime, !.current_round = 0,
              !.round_results = <<>>, !.last_active_at = now,
              !.first_flip_at = NoTime, !.first_delivery_at = NoTime,
              !.lead_time_seconds = NoTime]

reset_game(g) ==
    [g EXCEPT !.state = LOBBY, !.started_at = NoTime, !.ended_at = NoTime,
              !.batch_size = DEFAULT_BATCH_SIZE, !.player_coins = EmptyDict,
              !.sent_coins = EmptyDict, !.player_timers = EmptyDict,
              !.game_duration_seconds = NoTime, !.current_round = 0,
              !.round_results = <<>>, !.last_active_at = now,
              !.first_flip_at = NoTime, !.first_delivery_at = NoTime,
              !.lead_time_seconds = NoTime]

(***************************************************************************)
(* validators.py                                                           *)
(***************************************************************************)
validate_host_action(g, host_secret) == host_secret = HostSecret

validate_game_not_started(g) == g.started_at = NoTime

validate_username_available(g, username) ==
    ~(username = g.host \/ InSeq(username, g.players) \/ InSeq(username, g.spectators))

\* a variant without a player limit
validate_player_limit_none(g) == TRUE

validate_player_limit(g) == Len(g.players) < MAX_PLAYERS

\* the error, "" when the request is valid
validate_active_game(g, player) ==
    IF g.state # ACTIVE THEN "Game is not active"
    ELSE IF g.players = <<>> THEN "No players in game"
    ELSE IF ~InSeq(player, g.players) THEN "Player not in game"
    ELSE ""

validate_send_batch_request(g, player) ==
    IF validate_active_game(g, player) # "" THEN validate_active_game(g, player)
    ELSE IF player = g.host THEN "Host does not play"
    ELSE ""

validate_flip_request(g, player) == validate_send_batch_request(g, player)

validate_role_change(g, username, new_role) ==
    IF username = g.host THEN "Host role cannot be changed"
    ELSE IF new_role = "player"
         THEN IF ~InSeq(username, g.spectators) THEN "User is not a spectator"
              ELSE IF ~validate_player_limit(g) THEN "Player limit reached"
              ELSE ""
    ELSE IF new_role = "spectator"
         THEN IF ~InSeq(username, g.players) THEN "User is not a player" ELSE ""
    ELSE "Invalid role"

(***************************************************************************)
(* routes.py: each handler as a function of the session, then as an action *)
(***************************************************************************)
\* the session the handler leaves (game.x = ... for every field x)
Commit(g) ==
    /\ players' = g.players
    /\ spectators' = g.spectators
    /\ host' = g.host
    /\ state' = g.state
    /\ round_type' = g.round_type
    /\ required_players' = g.required_players
    /\ selected_batch_size' = g.selected_batch_size
    /\ current_round' = g.current_round
    /\ batch_size' = g.batch_size
    /\ round_results' = g.round_results
    /\ player_coins' = g.player_coins
    /\ sent_coins' = g.sent_coins
    /\ player_timers' = g.player_timers
    /\ started_at' = g.started_at
    /\ ended_at' = g.ended_at
    /\ game_duration_seconds' = g.game_duration_seconds
    /\ first_flip_at' = g.first_flip_at
    /\ first_delivery_at' = g.first_delivery_at
    /\ lead_time_seconds' = g.lead_time_seconds
    /\ last_active_at' = g.last_active_at

\* the names a join request carries.  A name already used in the room is refused;
\* the names the room has never seen are interchangeable, so the first of them
\* stands for all; a name that left the roster but still has an entry in the
\* ledger or the timers is tried as itself.
Used(g) == {g.host} \cup {g.players[i] : i \in 1..Len(g.players)}
                    \cup {g.spectators[i] : i \in 1..Len(g.spectators)}

Known(g) == Used(g) \cup DOMAIN g.player_coins \cup DOMAIN g.sent_coins
                    \cup DOMAIN g.player_timers

JoinNames(g) ==
    (Known(g) \cap Users) \cup
    {Names[i] : i \in {j \in 1..Len(Names) :
                          /\ Names[j] \notin Known(g)
                          /\ \A k \in 1..(j - 1) : Names[k] \in Known(g)}}

join_game(g, username, spectator) ==
    IF ~validate_username_available(g, username) THEN [status |-> 400, g |-> g]
    ELSE LET g1 == [g EXCEPT !.last_active_at = now]
         IN  IF g1.host = NoUser
             THEN [status |-> 200, g |-> [g1 EXCEPT !.host = username]]
             ELSE IF spectator
             THEN [status |-> 200, g |-> [g1 EXCEPT !.spectators = Append(@, username)]]
             ELSE IF ~validate_player_limit(g1)
             THEN [status |-> 200, g |-> [g1 EXCEPT !.spectators = Append(@, username)]]
             ELSE [status |-> 200, g |-> [g1 EXCEPT !.players = Append(@, username)]]

\* the status a handler answers when the room is not in the registry.  start:
\* validate_game_not_started(None) raises while the list of validations is built.
\* next_round, reset: validate_host_action(None, cookie) answers without a cookie
\* and reads None.host_secret with one.
MissingRoomStatus(op, cookie) ==
    CASE op = "start" -> 500
      [] op \in {"next_round", "reset"} -> IF cookie = "absent" THEN 404 ELSE 500
      [] OTHER -> 404

\* join_game's "if room_id not in rooms: rooms[room_id] = []"
join_rooms(g, username) ==
    IF validate_username_available(g, username) /\ Room \notin DOMAIN rooms
    THEN Put(rooms, Room, {})
    ELSE rooms

JoinGame(username, spectator) ==
    /\ Room \in games
    /\ Commit(join_game(G, username, spectator).g)
    /\ rooms' = join_rooms(G, username)
    /\ UNCHANGED <<games, now, role_changes, online_users, in_flight>>

\* the route accepts the sizes 1, 4 and 12 only
RouteBatchSizes == {1, 4, 12}

set_round_configuration(g, rt, rp, sbs, cookie) ==
    IF ~validate_host_action(g, cookie) THEN [status |-> 403, g |-> g]
    ELSE IF g.state # LOBBY THEN [status |-> 400, g |-> g]
    ELSE IF rt = SINGLE /\ sbs = 0 THEN [status |-> 400, g |-> g]
    ELSE IF sbs # 0 /\ sbs \notin RouteBatchSizes THEN [status |-> 400, g |-> g]
    ELSE LET r == set_round_config(g, rt, rp, sbs)
         IN  IF r.ok THEN [status |-> 200, g |-> r.g] ELSE [status |-> 400, g |-> g]

SetRoundConfiguration(rt, rp, sbs, cookie) ==
    /\ Room \in games
    /\ Commit(set_round_configuration(G, rt, rp, sbs, cookie).g)
    /\ UNCHANGED <<games, now, role_changes, rooms, online_users, in_flight>>

\* a variant that starts the first round without counting the players
start_game_any_roster(g, cookie) ==
    IF ~validate_game_not_started(g) THEN [status |-> 400, g |-> g]
    ELSE IF ~validate_host_action(g, cookie) THEN [status |-> 403, g |-> g]
    ELSE LET r == start_next_round(g)
         IN  IF ~r.ok THEN [status |-> 400, g |-> r.g]
             ELSE IF r.g.round_type \notin RoundTypes THEN [status |-> 500, g |-> r.g]
             ELSE [status |-> 200, g |-> r.g]

start_game(g, cookie) ==
    IF ~validate_game_not_started(g) THEN [status |-> 400, g |-> g]
    ELSE IF ~validate_host_action(g, cookie) THEN [status |-> 403, g |-> g]
    ELSE IF Len(g.players) < g.required_players THEN [status |-> 400, g |-> g]
    ELSE LET r == start_next_round(g)
         IN  IF ~r.ok THEN [status |-> 400, g |-> r.g]
             \* the game_started message reads game.round_type.value: a round_type
             \* that is no RoundType member raises after the round has started
             ELSE IF r.g.round_type \notin RoundTypes THEN [status |-> 500, g |-> r.g]
             ELSE [status |-> 200, g |-> r.g]

StartGame(cookie) ==
    /\ Room \in games
    /\ Commit(start_game(G, cookie).g)
    /\ UNCHANGED <<games, now, role_changes, rooms, online_users, in_flight>>

start_next_round_endpoint(g, cookie) ==
    IF ~validate_host_action(g, cookie) THEN [status |-> 403, g |-> g]
    ELSE IF g.state # ROUND_COMPLETE THEN [status |-> 400, g |-> g]
    ELSE LET r == start_next_round(g)
         IN  IF r.ok THEN [status |-> 200, g |-> r.g] ELSE [status |-> 400, g |-> g]

StartNextRound(cookie) ==
    /\ Room \in games
    /\ Commit(start_next_round_endpoint(G, cookie).g)
    /\ UNCHANGED <<games, now, role_changes, rooms, online_users, in_flight>>

flip_coin_endpoint(g, username, coin_index) ==
    IF Len(g.players) < g.required_players THEN [resp |-> Rejected("Need players"), g |-> g]
    ELSE IF validate_flip_request(g, username) # ""
         THEN [resp |-> Rejected(validate_flip_request(g, username)), g |-> g]
    ELSE process_flip(g, username, coin_index)

FlipCoin(username, coin_index) ==
    /\ Room \in games
    /\ Len(flip_coin_endpoint(G, username, coin_index).g.round_results) <= MaxResults
    /\ Commit(flip_coin_endpoint(G, username, coin_index).g)
    /\ UNCHANGED <<games, now, role_changes, rooms, online_users, in_flight>>

send_batch_endpoint(g, username) ==
    IF Len(g.players) < g.required_players THEN [resp |-> Rejected("Need players"), g |-> g]
    ELSE IF validate_send_batch_request(g, username) # ""
         THEN [resp |-> Rejected(validate_send_batch_request(g, username)), g |-> g]
    ELSE IF ~InSeq(username, g.players)
         THEN [resp |-> Rejected("User is not a player in this game"), g |-> g]
    ELSE process_send(g, username)

\* the model stops sending for a player whose history holds MaxBatches batches
HistoryFull(g, username) ==
    username \in DOMAIN g.sent_coins /\ Len(g.sent_coins[username]) >= MaxBatches

SendBatch(username) ==
    /\ Room \in games
    /\ ~HistoryFull(G, username)
    /\ Len(send_batch_endpoint(G, username).g.round_results) <= MaxResults
    /\ Commit(send_batch_endpoint(G, username).g)
    /\ UNCHANGED <<games, now, role_changes, rooms, online_users, in_flight>>

reset_game_endpoint(g, cookie) ==
    IF ~validate_host_action(g, cookie) THEN [status |-> 403, g |-> g]
    \* the game_reset message reads game.round_type.value after the reset
    ELSE IF g.round_type \notin RoundTypes THEN [status |-> 500, g |-> reset_game(g)]
    ELSE [status |-> 200, g |-> reset_game(g)]

ResetGame(cookie) ==
    /\ Room \in games
    /\ Commit(reset_game_endpoint(G, cookie).g)
    /\ UNCHANGED <<games, now, role_changes, rooms, online_users, in_flight>>

change_role(g, username, new_role) ==
    IF validate_role_change(g, username, new_role) # "" THEN [status |-> 400, g |-> g]
    ELSE LET g1 == IF new_role = "player"
                   THEN [g EXCEPT !.spectators = RemoveFirst(username, @),
                                  !.players = Append(@, username)]
                   ELSE LET g2 == [g EXCEPT !.players = RemoveFirst(username, @),
                                            !.spectators = Append(@, username)]
                        IN  IF g2.state = ACTIVE THEN initialize_player_coins(g2, TRUE)
                            ELSE g2
         IN  [status |-> 200, g |-> [g1 EXCEPT !.last_active_at = now]]

ChangeRole(username, new_role) ==
    /\ Room \in games
    /\ role_changes < MaxRoleChanges \/ change_role(G, username, new_role).status # 200
    /\ Commit(change_role(G, username, new_role).g)
    /\ role_changes' = IF change_role(G, username, new_role).status = 200
                       THEN role_changes + 1 ELSE role_changes
    /\ UNCHANGED <<games, now, rooms, online_users, in_flight>>

\* cleanup(), for the one room: the roster part, then whether the room is removed
cleanup_players(g) ==
    LET active_players == IF now - g.last_active_at < PLAYER_INACTIVITY_THRESHOLD
                          THEN g.players ELSE <<>>
    IN  IF Len(active_players) < Len(g.players)
        THEN LET g1 == [g EXCEPT !.players = active_players]
             IN  IF g1.state = ACTIVE THEN initialize_player_coins(g1, TRUE) ELSE g1
        ELSE g

cleanup_removes(g) == now - g.last_active_at > ROOM_INACTIVITY_THRESHOLD

\* the three registries after cleanup(): the loop runs over the rooms of the
\* games registry, and remove_game(room_id) pops the room from all three
cleanup_games == IF Room \in games /\ cleanup_removes(G) THEN games \ {Room} ELSE games

cleanup_rooms == IF Room \in games /\ cleanup_removes(G) THEN Pop(rooms, Room) ELSE rooms

cleanup_online_users ==
    IF Room \in games /\ cleanup_removes(G) THEN Pop(online_users, Room) ELSE online_users

CleanupInactiveGames ==
    /\ Room \in games
    /\ Commit(cleanup_players(G))
    /\ games' = cleanup_games
    /\ rooms' = cleanup_rooms
    /\ online_users' = cleanup_online_users
    /\ UNCHANGED <<now, role_changes, in_flight>>

\* time passes
Tick ==
    /\ now < MaxTime
    /\ now' = now + 1
    /\ Commit(G)
    /\ UNCHANGED <<games, role_changes, rooms, online_users, in_flight>>

(***************************************************************************)
(* Requests in flight.  The handlers declared async run on the event loop  *)
(* and give way to each other only at an await; cleanup_inactive_games is  *)
(* declared with def, which the framework runs on a worker thread, so the  *)
(* sweep can run between any two statements of a handler.  A handler is    *)
(* split where its checks end and its first write begins; in_flight holds  *)
(* the request between the two steps.                                      *)
(***************************************************************************)
\* join_game up to and including validate_username_available
JoinLookup(username) ==
    /\ in_flight = NoRequest
    /\ Room \in games
    /\ validate_username_available(G, username)
    /\ in_flight' = [op |-> "join", username |-> username, coin_index |-> 0]
    /\ Commit(G)
    /\ UNCHANGED <<games, now, role_changes, rooms, online_users>>

\* join_game from "if room_id not in rooms" on, with the game object it looked up
JoinRegister ==
    /\ in_flight.op = "join"
    /\ Commit(join_game(G, in_flight.username, FALSE).g)
    /\ rooms' = join_rooms(G, in_flight.username)
    /\ in_flight' = NoRequest
    /\ UNCHANGED <<games, now, role_changes, online_users>>

\* websocket_endpoint up to and including "if room_id not in rooms"
ConnectCheck(username) ==
    /\ in_flight = NoRequest
    /\ Room \in DOMAIN rooms
    /\ username \notin rooms[Room]
    /\ in_flight' = [op |-> "connect", username |-> username, coin_index |-> 0]
    /\ Commit(G)
    /\ UNCHANGED <<games, now, role_changes, rooms, online_users>>

add_client_to_room(registry, username) ==
    IF Room \in DOMAIN registry
    THEN [registry EXCEPT ![Room] = @ \cup {username}]
    ELSE Put(registry, Room, {username})

ConnectAdd ==
    /\ in_flight.op = "connect"
    /\ rooms' = add_client_to_room(rooms, in_flight.username)
    /\ online_users' = add_client_to_room(online_users, in_flight.username)
    /\ in_flight' = NoRequest
    /\ Commit(G)
    /\ UNCHANGED <<games, now, role_changes>>

\* handle_disconnect: remove_client_from_room, then the room is closed when the
\* host left
remove_client_rooms(username) ==
    IF rooms[Room] \ {username} = {} THEN Pop(rooms, Room)
    ELSE [rooms EXCEPT ![Room] = @ \ {username}]

remove_client_online(username) ==
    IF rooms[Room] \ {username} = {} THEN Pop(online_users, Room)
    ELSE IF Room \in DOMAIN online_users
    THEN [online_users EXCEPT ![Room] = @ \ {username}]
    ELSE online_users

\* a variant in which the host's disconnect leaves the game in the registry
handle_disconnect_keeps_game(username) ==
    [games |-> games,
     rooms |-> remove_client_rooms(username),
     online_users |-> remove_client_online(username)]

\* the three registries after handle_disconnect(websocket, room_id, username)
handle_disconnect(username) ==
    LET rooms1 == remove_client_rooms(username)
        online1 == remove_client_online(username)
    IN  IF Room \in games /\ username = host
        \* _handle_host_disconnect: remove_game(room_id)
        THEN [games |-> games \ {Room},
              rooms |-> Pop(rooms1, Room),
              online_users |-> Pop(online1, Room)]
        ELSE [games |-> games, rooms |-> rooms1, online_users |-> online1]

Disconnect(username) ==
    /\ in_flight = NoRequest
    /\ Room \in DOMAIN rooms
    /\ username \in rooms[Room]
    /\ games' = handle_disconnect(username).games
    /\ rooms' = handle_disconnect(username).rooms
    /\ online_users' = handle_disconnect(username).online_users
    /\ Commit(G)
    /\ UNCHANGED <<now, role_changes, in_flight>>

\* flip_coin (route) and process_flip up to their last check
FlipValidate(username, coin_index) ==
    /\ in_flight = NoRequest
    /\ Room \in games
    /\ Len(players) >= required_players
    /\ validate_flip_request(G, username) = ""
    /\ in_flight' = [op |-> "flip", username |-> username, coin_index |-> coin_index]
    /\ Commit(G)
    /\ UNCHANGED <<games, now, role_changes, rooms, online_users>>

\* process_flip from flip_coin() on
flip_after_checks(g, player, coin_index) ==
    LET r == flip_coin(g, player, coin_index)
    IN  IF ~r.ok THEN [status |-> 400, g |-> r.g]
        ELSE [status |-> 200,
              g |-> AfterAction(check_and_end_all_finished_timers(
                                    [r.g EXCEPT !.last_active_at = now])).g]

FlipAct ==
    /\ in_flight.op = "flip"
    /\ Commit(flip_after_checks(G, in_flight.username, in_flight.coin_index).g)
    /\ in_flight' = NoRequest
    /\ UNCHANGED <<games, now, role_changes, rooms, online_users>>

\* send_batch_endpoint and process_send up to their last check
SendValidate(username) ==
    /\ in_flight = NoRequest
    /\ Room \in games
    /\ ~HistoryFull(G, username)
    /\ Len(players) >= required_players
    /\ validate_send_batch_request(G, username) = ""
    /\ in_flight' = [op |-> "send", username |-> username, coin_index |-> 0]
    /\ Commit(G)
    /\ UNCHANGED <<games, now, role_changes, rooms, online_users>>

\* process_send from send_batch() on; game.players.index(player) raises
\* ValueError for a player who is not in the list, which the route answers
\* with 500
send_after_checks(g, player) ==
    IF ~can_send_batch(g, player) THEN [status |-> 400, g |-> g]
    ELSE IF ~InSeq(player, g.players) THEN [status |-> 500, g |-> g]
    ELSE LET r == send_batch(g, player)
         IN  IF ~r.ok THEN [status |-> 400, g |-> r.g]
             ELSE [status |-> 200,
                   g |-> AfterAction([r.g EXCEPT !.last_active_at = now]).g]

SendAct ==
    /\ in_flight.op = "send"
    /\ Commit(send_after_checks(G, in_flight.username).g)
    /\ in_flight' = NoRequest
    /\ UNCHANGED <<games, now, role_changes, rooms, online_users>>

(***************************************************************************)
(* The room after create_new_game()                                        *)
(***************************************************************************)
Init ==
    /\ players = <<>>
    /\ spectators = <<>>
    /\ host = NoUser
    /\ state = LOBBY
    /\ round_type = RAW_THREE_ROUNDS
    /\ required_players = DEFAULT_REQUIRED_PLAYERS
    /\ selected_batch_size = 0
    /\ current_round = 0
    /\ batch_size = DEFAULT_BATCH_SIZE
    /\ round_results = <<>>
    /\ player_coins = EmptyDict
    /\ sent_coins = EmptyDict
    /\ player_timers = EmptyDict
    /\ started_at = NoTime
    /\ ended_at = NoTime
    /\ game_duration_seconds = NoTime
    /\ first_flip_at = NoTime
    /\ first_delivery_at = NoTime
    /\ lead_time_seconds = NoTime
    /\ last_active_at = 0
    /\ games = {Room}
    /\ now = 0
    /\ role_changes = 0
    /\ rooms = Put(EmptyDict, Room, {})
    /\ online_users = EmptyDict
    /\ in_flight = NoRequest

\* the values the requests carry
CoinIndexes == 0..(TOTAL_COINS - 1)

Roles == {"player", "spectator"}

\* round configurations the host asks for: (round_type, required_players,
\* selected_batch_size); 2 is not a size the route accepts, 12 is a size the
\* route accepts that does not divide the total
ConfigRequests ==
    {<<SINGLE, 2, 1>>, <<SINGLE, 2, 0>>, <<SINGLE, 2, 2>>, <<SINGLE, 2, 12>>,
     <<TWO_ROUNDS, 2, 0>>, <<THREE_ROUNDS, MAX_PLAYERS, 0>>}

Next ==
    \/ \E u \in Users, sp \in BOOLEAN : u \in JoinNames(G) /\ JoinGame(u, sp)
    \/ \E q \in ConfigRequests, c \in Cookies : SetRoundConfiguration(q[1], q[2], q[3], c)
    \/ \E c \in Cookies : StartGame(c)
    \/ \E c \in Cookies : StartNextRound(c)
    \/ \E u \in Users, i \in CoinIndexes : FlipCoin(u, i)
    \/ \E u \in Users : SendBatch(u)
    \/ \E c \in Cookies : ResetGame(c)
    \/ \E u \in Users, r \in Roles : ChangeRole(u, r)

\* the lifecycle with the clock standing still
Spec == Init /\ [][Next]_vars

\* the room under a running clock and the periodic sweep, with ClockPlayers players
NextClock ==
    \/ \E u \in Users : u \in JoinNames(G) /\ Len(players) < ClockPlayers /\ JoinGame(u, FALSE)
    \/ \E q \in ConfigRequests, c \in Cookies : SetRoundConfiguration(q[1], q[2], q[3], c)
    \/ \E c \in Cookies : StartGame(c)
    \/ \E u \in Users, i \in CoinIndexes : FlipCoin(u, i)
    \/ \E u \in Users : SendBatch(u)
    \/ \E c \in Cookies : ResetGame(c)
    \/ CleanupInactiveGames
    \/ Tick

SpecClock == Init /\ [][NextClock]_vars

\* the users who open a connection in the runs with requests in flight
RaceClients == {"h", "a"}

\* the room with requests in flight, the sweep and the clock, with
\* ClockPlayers players who join while the room is in Lobby: the event-loop
\* handlers start only when no request is between its two steps, and the
\* sweep does not wait; the clock, whose unit is the inactivity threshold,
\* does not advance while a request is between its two steps
NextRace ==
    \/ \E u \in Users : /\ u \in JoinNames(G)
                         /\ Len(players) < ClockPlayers
                         /\ state = LOBBY
                         /\ JoinLookup(u)
    \/ JoinRegister
    \/ in_flight = NoRequest /\ SetRoundConfiguration(SINGLE, 2, 1, HostSecret)
    \/ in_flight = NoRequest /\ StartGame(HostSecret)
    \/ \E u \in Users, i \in CoinIndexes : FlipValidate(u, i)
    \/ FlipAct
    \/ \E u \in Users : SendValidate(u)
    \/ SendAct
    \/ \E u \in RaceClients : ConnectCheck(u)
    \/ ConnectAdd
    \/ \E u \in RaceClients : Disconnect(u)
    \/ CleanupInactiveGames
    \/ in_flight = NoRequest /\ Tick

SpecRace == Init /\ [][NextRace]_vars

\* a send that moves at least one unit: the sender holds a head
MovingSend(username) ==
    /\ username \in DOMAIN player_coins
    /\ CountHeads(player_coins[username]) > 0
    /\ SendBatch(username)

\* one round with the roster fixed at its start: the players join in Lobby, the
\* host configures and starts, and the players flip and send units; a send of
\* no unit changes nothing but the history, whose length the model bounds, and
\* is left out
RoundStep == \/ \E u \in Users, i \in CoinIndexes : FlipCoin(u, i)
             \/ \E u \in Users : MovingSend(u)

NextRound ==
    \/ \E u \in Users : u \in JoinNames(G) /\ state = LOBBY /\ JoinGame(u, FALSE)
    \/ \E q \in ConfigRequests : SetRoundConfiguration(q[1], q[2], q[3], HostSecret)
    \/ StartGame(HostSecret)
    \/ RoundStep

\* FlipCoin(u, i) can change the session: the request passes the guards of the
\* action and the handler leaves a session other than the one it found
FlipCoinEnabled(u, i) ==
    /\ Room \in games
    /\ Len(flip_coin_endpoint(G, u, i).g.round_results) <= MaxResults
    /\ flip_coin_endpoint(G, u, i).g # G

\* MovingSend(u) can change the session
MovingSendEnabled(u) ==
    /\ u \in DOMAIN player_coins
    /\ CountHeads(player_coins[u]) > 0
    /\ Room \in games
    /\ ~HistoryFull(G, u)
    /\ Len(send_batch_endpoint(G, u).g.round_results) <= MaxResults
    /\ send_batch_endpoint(G, u).g # G

\* ENABLED <<RoundStep>>_vars, written out
RoundStepEnabled ==
    \/ \E u \in Users, i \in CoinIndexes : FlipCoinEnabled(u, i)
    \/ \E u \in Users : MovingSendEnabled(u)

\* the players keep flipping and sending while a flip or a send is possible:
\* weak fairness of RoundStep, which is WF_vars(RoundStep) with its enabling
\* condition written out as the state predicate RoundStepEnabled
SpecRound ==
    /\ Init
    /\ [][NextRound]_vars
    /\ ([]<>~RoundStepEnabled \/ []<><<RoundStep>>_vars)

(***************************************************************************)
(* Properties of the batch-flow engine and of the round lifecycle          *)
(***************************************************************************)
\* C1: conservation.  While a round's ledger is initialized (the session is
\* Active, from a successful start until reset), the units the roster players
\* hold plus total_completed equal the total unit count, whatever flips,
\* sends, joins and role changes happened.
Conservation ==
    LET RECURSIVE Held(_)
        Held(i) == IF i = 0 THEN 0
                   ELSE (IF players[i] \in DOMAIN player_coins
                         THEN Len(player_coins[players[i]]) ELSE 0) + Held(i - 1)
    IN  state = ACTIVE =>
            Held(Len(players)) + get_total_completed_coins(G) = TOTAL_COINS

\* C2: a flip or send that makes is_round_over true leaves Active in the same
\* operation, for RoundComplete while the batch sequence has rounds left and
\* for Results when it is exhausted, with one RoundResult appended; a
\* single-round, batch-size-1, 2-player session whose total_completed reached
\* the total is in state Results.
RoundOverLeavesActive ==
    LET after(g) == IF g.current_round <
                          Len(get_batch_sizes_for_round_type(g.round_type, g.selected_batch_size))
                    THEN ROUND_COMPLETE ELSE RESULTS
        left(r) == r.resp.success /\ r.resp.round_complete =>
                       /\ r.g.state = after(r.g)
                       /\ Len(r.g.round_results) = Len(round_results) + 1
    IN  /\ \A u \in Users : left(send_batch_endpoint(G, u))
        /\ \A u \in Users, i \in CoinIndexes : left(flip_coin_endpoint(G, u, i))
        /\ (/\ round_type = SINGLE
            /\ selected_batch_size = 1
            /\ Len(players) = 2
            /\ state # LOBBY
            /\ get_total_completed_coins(G) = TOTAL_COINS) => state = RESULTS

\* C3: send legality.  In an Active round, for every roster player at every
\* chain position, send(player) succeeds if and only if can_send(player) is
\* true immediately before the call.
SendLegality ==
    state = ACTIVE =>
        \A i \in 1..Len(players) :
            process_send(G, players[i]).resp.success <=> can_send_batch(G, players[i])

\* C4: a successful send by a non-last player who held a active units, with
\* batch size b, removes k = min(a, b) units from the sender, all of them
\* active, appends k inactive units at the end of the next chain player's
\* sequence, and changes no other player's holdings.
NonLastSendMovesBatch ==
    \A i \in 1..(Len(players) - 1) :
        LET p == players[i]
            nxt == players[i + 1]
            r == process_send(G, p)
            a == CountHeads(player_coins[p])
            k == Min(a, batch_size)
            before == IF nxt \in DOMAIN player_coins THEN player_coins[nxt] ELSE <<>>
        IN  r.resp.success =>
                /\ Len(r.g.player_coins[p]) = Len(player_coins[p]) - k
                /\ CountHeads(r.g.player_coins[p]) = a - k
                /\ r.g.player_coins[nxt] = before \o Repeat(FALSE, k)
                /\ DOMAIN r.g.player_coins = DOMAIN player_coins \cup {nxt}
                /\ \A q \in DOMAIN player_coins \ {p, nxt} :
                       r.g.player_coins[q] = player_coins[q]

\* C4 happens: in a three-player round a player who has sent before can send
\* at least one unit to a next player who already holds units.
NonLastSendMovesBatchWitness ==
    /\ state = ACTIVE
    /\ Len(players) = 3
    /\ \E i \in 1..(Len(players) - 1) :
          /\ players[i] \in DOMAIN player_coins
          /\ players[i + 1] \in DOMAIN player_coins
          /\ process_send(G, players[i]).resp.success
          /\ CountHeads(player_coins[players[i]]) >= 1
          /\ Len(player_coins[players[i + 1]]) >= 1
          /\ Len(sent_coins[players[i]]) >= 1

\* C5: only the last chain player's sends reach the completed bucket.  A
\* successful send by the last player holding a active units, with batch size
\* b, raises total_completed by min(a, b) and removes that many active units
\* from that player; a successful send by any other player, and any
\* successful flip, leaves total_completed unchanged.
OnlyLastSendCompletes ==
    /\ \A i \in 1..Len(players) :
          LET p == players[i]
              r == process_send(G, p)
              a == CountHeads(player_coins[p])
              k == Min(a, batch_size)
          IN  r.resp.success =>
                  IF i = Len(players)
                  THEN /\ get_total_completed_coins(r.g) = get_total_completed_coins(G) + k
                       /\ Len(r.g.player_coins[p]) = Len(player_coins[p]) - k
                       /\ CountHeads(r.g.player_coins[p]) = a - k
                  ELSE get_total_completed_coins(r.g) = get_total_completed_coins(G)
    /\ \A u \in Users, c \in CoinIndexes :
          process_flip(G, u, c).resp.success =>
              get_total_completed_coins(process_flip(G, u, c).g) = get_total_completed_coins(G)

\* C5 happens: the last player has completed units before and can complete
\* more, while an earlier player can send and somebody can flip.
OnlyLastSendCompletesWitness ==
    /\ state = ACTIVE
    /\ Len(players) >= 2
    /\ get_total_completed_coins(G) >= 1
    /\ process_send(G, players[Len(players)]).resp.success
    /\ \E i \in 1..(Len(players) - 1) : process_send(G, players[i]).resp.success
    /\ \E u \in Users, c \in CoinIndexes : process_flip(G, u, c).resp.success

\* C6: a flip is rejected when the player is unknown to the ledger, the index
\* is out of range or the addressed unit is already active, and a rejected
\* flip changes nothing: units, timers, first_flip_at, the send history, the
\* lifecycle state and last_active_at are as before the call.
RejectedFlipNoSideEffects ==
    /\ \A u \in Users, c \in (-1)..TOTAL_COINS :
          LET r == process_flip(G, u, c)
              refused == \/ u \notin DOMAIN player_coins
                         \/ c < 0
                         \/ c >= Len(player_coins[u])
                         \/ player_coins[u][c + 1]
          IN  /\ refused => ~r.resp.success
              /\ ~r.resp.success => r.g = G
    /\ \A u \in Users, c \in CoinIndexes :
          ~flip_coin_endpoint(G, u, c).resp.success => flip_coin_endpoint(G, u, c).g = G

\* C6 happens: in an Active round, some time after the last activity, one
\* roster player has an active unit (a flip of it is rejected) and another
\* holds nothing and has no running timer (any index is out of range).
RejectedFlipNoSideEffectsWitness ==
    /\ state = ACTIVE
    /\ now > last_active_at
    /\ Len(players) >= required_players
    /\ \E i \in 1..Len(players) :
          /\ players[i] \in DOMAIN player_coins
          /\ CountHeads(player_coins[players[i]]) >= 1
          /\ ~process_flip(G, players[i], 0).resp.success
    /\ \E i \in 1..Len(players) :
          /\ players[i] \in DOMAIN player_coins
          /\ player_coins[players[i]] = <<>>
          /\ player_timers[players[i]].started_at = NoTime

\* C7: a RoundResult is created once per completed round: round_results never
\* has more entries than current_round and no two entries carry the same
\* round_number, whatever is attempted after the round's last unit was completed.
OneResultPerRound ==
    /\ Len(round_results) <= current_round
    /\ \A i, j \in 1..Len(round_results) :
          i # j => round_results[i].round_number # round_results[j].round_number

\* C8: in a double or triple session, once all units of round k (k less than
\* the number of rounds) are completed, the host's start_next call succeeds:
\* current_round becomes k + 1, batch_size the (k + 1)-th element of the batch
\* sequence, the ledger is initialized again and the state is Active.
NextRoundStarts ==
    (/\ round_type \in {TWO_ROUNDS, THREE_ROUNDS}
     /\ state # LOBBY
     /\ current_round >= 1
     /\ current_round < get_total_rounds(round_type)
     /\ get_total_completed_coins(G) = TOTAL_COINS) =>
        LET r == start_next_round_endpoint(G, HostSecret)
            sizes == get_batch_sizes_for_round_type(round_type, selected_batch_size)
        IN  /\ r.status = 200
            /\ r.g.current_round = current_round + 1
            /\ r.g.batch_size = sizes[current_round + 1]
            /\ r.g.state = ACTIVE
            /\ r.g.player_coins = initialize_player_coins(G, TRUE).player_coins
            /\ r.g.sent_coins = initialize_player_coins(G, TRUE).sent_coins

\* C9: finish monotonicity.  A roster player for whom has_player_finished is
\* true stays finished across every flip, send, join and role change that does
\* not initialize the ledger (a player turned spectator in an Active round does).
FinishedStaysFinished ==
    [][\A p \in Users :
          (/\ InSeq(p, players)
           /\ has_player_finished(G, p)
           /\ \/ \E u \in Users, i \in CoinIndexes : FlipCoin(u, i)
              \/ \E u \in Users : SendBatch(u)
              \/ \E u \in Users, sp \in BOOLEAN : JoinGame(u, sp)
              \/ \E u \in Users, r \in Roles :
                    /\ ~(r = "spectator" /\ state = ACTIVE)
                    /\ ChangeRole(u, r))
          => has_player_finished(G, p)']_vars

\* C9 happens: a roster player who has sent units is finished while a later
\* player holds an active unit and can send it.
FinishedStaysFinishedWitness ==
    /\ state = ACTIVE
    /\ \E i \in 1..Len(players) :
          /\ has_player_finished(G, players[i])
          /\ Len(sent_coins[players[i]]) >= 1
          /\ \E j \in (i + 1)..Len(players) :
                /\ players[j] \in DOMAIN player_coins
                /\ CountHeads(player_coins[players[j]]) >= 1
                /\ process_send(G, players[j]).resp.success
          /\ process_send(G, players[i]).resp.success

\* C10: every recorded RoundResult has total_completed equal to the total
\* unit count: no round is declared complete with units short of the
\* completed bucket.
ResultsAreComplete ==
    \A i \in 1..Len(round_results) : round_results[i].total_completed = TOTAL_COINS

\* C11: the lead time is the time of the first delivery to the completed
\* bucket minus the time of the round's first flip by any player.  The first
\* successful flip of a round sets first_flip_at and no later flip moves it;
\* the first delivery of at least one unit by the last player sets
\* first_delivery_at and the lead time; no later flip or send changes them.
LeadTimeFromFirstFlip ==
    /\ lead_time_seconds # NoTime =>
          /\ first_flip_at # NoTime
          /\ first_delivery_at # NoTime
          /\ lead_time_seconds = first_delivery_at - first_flip_at
    /\ \A u \in Users, c \in CoinIndexes :
          LET r == process_flip(G, u, c)
          IN  r.resp.success =>
                  /\ r.g.first_flip_at = IF first_flip_at = NoTime THEN now ELSE first_flip_at
                  /\ r.g.first_delivery_at = first_delivery_at
                  /\ r.g.lead_time_seconds = lead_time_seconds
    /\ \A i \in 1..Len(players) :
          LET r == process_send(G, players[i])
              delivers == i = Len(players) /\ CountHeads(player_coins[players[i]]) >= 1
          IN  r.resp.success =>
                  /\ r.g.first_flip_at = first_flip_at
                  /\ IF delivers /\ first_delivery_at = NoTime
                     THEN /\ r.g.first_delivery_at = now
                          /\ r.g.lead_time_seconds = now - first_flip_at
                     ELSE /\ r.g.first_delivery_at = first_delivery_at
                          /\ r.g.lead_time_seconds = lead_time_seconds

\* C11 happens: the first player flipped first, the last player flipped later
\* and delivered later still, so the lead time differs from the time since the
\* last player's own first flip; the last player can flip and deliver again.
LeadTimeFromFirstFlipWitness ==
    /\ state = ACTIVE
    /\ Len(players) >= 2
    /\ lead_time_seconds = first_delivery_at - first_flip_at
    /\ players[Len(players)] \in DOMAIN player_timers
    /\ first_flip_at < player_timers[players[Len(players)]].started_at
    /\ player_timers[players[Len(players)]].started_at < first_delivery_at
    /\ process_send(G, players[Len(players)]).resp.success

\* C12: from Lobby the first round starts only when the roster has at least
\* required_players players and the batch sequence has a round left; when
\* either fails the start is rejected and state, current_round and the ledger
\* stay as they were.
FirstRoundNeedsPlayers ==
    state = LOBBY =>
        \A c \in Cookies :
            LET r == start_game(G, c)
                sizes == get_batch_sizes_for_round_type(round_type, selected_batch_size)
                ready == Len(players) >= required_players /\ current_round < Len(sizes)
            IN  /\ (r.status = 200 \/ r.g.state = ACTIVE) => ready
                /\ ~ready =>
                      /\ r.status \notin {200, 500}
                      /\ r.g.state = state
                      /\ r.g.current_round = current_round
                      /\ r.g.player_coins = player_coins
                      /\ r.g.sent_coins = sent_coins

\* C12 happens: a configured Lobby one player short of required_players, where
\* the host's start is rejected.
FirstRoundNeedsPlayersWitness ==
    /\ state = LOBBY
    /\ round_type \in RoundTypes
    /\ Len(players) = required_players - 1
    /\ start_game(G, HostSecret).status = 400

\* C13: start_next_round is rejected with no state change when the state is
\* Active or Results and when current_round already equals the number of
\* rounds of the configured sequence, through the function and through both
\* routes that call it; so 0 <= current_round <= number of rounds always.
RoundCounterBounded ==
    LET sizes == get_batch_sizes_for_round_type(round_type, selected_batch_size)
    IN  /\ (state \in {ACTIVE, RESULTS} \/ current_round >= Len(sizes)) =>
              /\ ~start_next_round(G).ok
              /\ start_next_round(G).g = G
              /\ \A c \in Cookies :
                    /\ start_game(G, c).status \notin {200, 500}
                    /\ start_game(G, c).g = G
                    /\ start_next_round_endpoint(G, c).status # 200
                    /\ start_next_round_endpoint(G, c).g = G
        /\ 0 <= current_round
        /\ current_round <= Len(sizes)
        /\ Len(sizes) = get_total_rounds(round_type)
        /\ round_type = SINGLE => Len(sizes) = 1
        /\ round_type = TWO_ROUNDS => Len(sizes) = 2
        /\ round_type = THREE_ROUNDS => Len(sizes) = 3

\* C13 happens: an Active two-round session in round 1 whose units are all
\* completed, where the host asks for the next round.
RoundCounterBoundedWitness ==
    /\ state = ACTIVE
    /\ round_type = TWO_ROUNDS
    /\ current_round = 1
    /\ get_total_completed_coins(G) = TOTAL_COINS
    /\ ~start_next_round(G).ok

RoundStartsFresh ==
    LET fresh(g) ==
            /\ g.state = ACTIVE
            /\ g.players # <<>>
            /\ DOMAIN g.player_coins = {g.players[i] : i \in 1..Len(g.players)}
            /\ DOMAIN g.sent_coins = DOMAIN g.player_coins
            /\ \A i \in 1..Len(g.players) :
                  /\ g.player_coins[g.players[i]] =
                        IF i = 1 THEN Repeat(FALSE, TOTAL_COINS) ELSE <<>>
                  /\ g.sent_coins[g.players[i]] = <<>>
                  /\ g.players[i] \in DOMAIN g.player_timers
                  /\ g.player_timers[g.players[i]].started_at = NoTime
                  /\ g.player_timers[g.players[i]].ended_at = NoTime
            /\ g.first_flip_at = NoTime
            /\ g.first_delivery_at = NoTime
            /\ g.lead_time_seconds = NoTime
    IN  /\ \A c \in Cookies :
              start_game(G, c).g # G => fresh(start_game(G, c).g)
        /\ (state = ACTIVE /\ is_round_over(G)) =>
              LET r == start_next_round([G EXCEPT !.state = ROUND_COMPLETE])
              IN  r.ok => fresh(r.g) /\ r.g.current_round = current_round + 1

\* C15 happens: a configured Lobby with three players from which the host's
\* start succeeds.
RoundStartsFreshWitness ==
    /\ state = LOBBY
    /\ Len(players) = 3
    /\ start_game(G, HostSecret).status = 200
    /\ start_game(G, HostSecret).g.state = ACTIVE

\* the requests a host can make of configure_round: every round type, player
\* counts from below 2 to above MAX_PLAYERS, and sizes from none (0) to above
\* the unit count together with the sizes the route names
AllRequiredPlayers == 0..(MAX_PLAYERS + 1)

AllBatchSizes == 0..(TOTAL_COINS + 1) \cup RouteBatchSizes

\* C16: configure_round is rejected when the session is not in Lobby, when
\* round_type is single without a selected batch size, when the selected size
\* does not divide the unit count, or when required_players is outside
\* [2, MAX_PLAYERS]; a rejected call leaves round_type, required_players,
\* selected_batch_size, current_round and round_results as they were.  Both
\* set_round_config and the route that calls it are held to this.
ConfigureRejections ==
    \A rt \in RoundTypes, rp \in AllRequiredPlayers, sbs \in AllBatchSizes :
        LET bad == \/ state # LOBBY
                   \/ (rt = SINGLE /\ sbs = 0)
                   \/ (sbs # 0 /\ TOTAL_COINS % sbs # 0)
                   \/ rp < 2
                   \/ rp > MAX_PLAYERS
            kept(g) == /\ g.round_type = round_type
                       /\ g.required_players = required_players
                       /\ g.selected_batch_size = selected_batch_size
                       /\ g.current_round = current_round
                       /\ g.round_results = round_results
            f == set_round_config(G, rt, rp, sbs)
        IN  /\ bad => ~f.ok
            /\ ~f.ok => kept(f.g)
            /\ \A c \in Cookies :
                  LET r == set_round_configuration(G, rt, rp, sbs, c)
                  IN  /\ bad => r.status # 200
                      /\ r.status # 200 => kept(r.g)

\* C16 happens: a round is running with a configuration other than the one
\* asked for, and a request that a Lobby would accept is rejected.
ConfigureRejectionsWitness ==
    /\ state = ACTIVE
    /\ round_type = TWO_ROUNDS
    /\ round_results # <<>> \/ current_round > 0
    /\ ~set_round_config(G, SINGLE, 2, 1).ok
    /\ set_round_configuration(G, SINGLE, 2, 1, HostSecret).status = 400

\* C17: in Lobby with a valid required_players, a host's configure_round with
\* round_type single is accepted for exactly the selected sizes that divide
\* the unit count evenly, and rejected for every other size, on the path of
\* the route followed by set_round_config.
SingleSizesAreDivisors ==
    state = LOBBY =>
        \A rp \in 2..MAX_PLAYERS, sbs \in AllBatchSizes \ {0} :
            (set_round_configuration(G, SINGLE, rp, sbs, HostSecret).status = 200)
                <=> (TOTAL_COINS % sbs = 0)

\* C18: a successful configure_round sets current_round to 0 and empties
\* round_results, and leaves players, spectators, host and the lifecycle state
\* (Lobby) unchanged.  A reachable Lobby never holds results, so set_round_config
\* is also applied to every session with its state field set to Lobby, where
\* the results and the round counter of a running game are there to be cleared.
ConfigureResetsHistory ==
    LET effect(before, after) ==
            /\ after.current_round = 0
            /\ after.round_results = <<>>
            /\ after.players = before.players
            /\ after.spectators = before.spectators
            /\ after.host = before.host
            /\ after.state = LOBBY
            /\ before.state = LOBBY
    IN  \A rt \in RoundTypes, rp \in AllRequiredPlayers, sbs \in AllBatchSizes :
            /\ \A c \in Cookies :
                  LET r == set_round_configuration(G, rt, rp, sbs, c)
                  IN  r.status = 200 => effect(G, r.g)
            /\ LET f == set_round_config(G, rt, rp, sbs)
               IN  f.ok => effect(G, f.g)
            /\ LET lobby == [G EXCEPT !.state = LOBBY]
                   f == set_round_config(lobby, rt, rp, sbs)
               IN  f.ok => effect(lobby, f.g)

\* C18 happens: a Lobby with players and a spectator, configured for two
\* rounds, in which the host's request for a single round is accepted.
ConfigureResetsHistoryWitness ==
    /\ state = LOBBY
    /\ Len(players) >= 2
    /\ spectators # <<>>
    /\ round_type = TWO_ROUNDS
    /\ set_round_configuration(G, SINGLE, 2, 1, HostSecret).status = 200

\* C19: the host's reset, from any lifecycle state, puts the session in Lobby
\* with current_round 0, no round results, an empty ledger, an empty send
\* history, no timers and unset round clocks, and leaves players, spectators,
\* host, round_type, required_players and selected_batch_size unchanged; when
\* the roster has the required number of players the first round can then be
\* started again.  The session is never in RoundComplete or Results, so the
\* reset is also applied with the state field set to each of the four states.
ResetReturnsToLobby ==
    LET r == reset_game_endpoint(G, HostSecret)
        s == start_game(r.g, HostSecret)
    IN  /\ r.g = reset_game(G)
        /\ \A st \in {LOBBY, ACTIVE, ROUND_COMPLETE, RESULTS} :
              reset_game_endpoint([G EXCEPT !.state = st], HostSecret).g = r.g
        /\ r.g.state = LOBBY
        /\ r.g.current_round = 0
        /\ r.g.round_results = <<>>
        /\ r.g.player_coins = EmptyDict
        /\ r.g.sent_coins = EmptyDict
        /\ r.g.player_timers = EmptyDict
        /\ r.g.started_at = NoTime
        /\ r.g.ended_at = NoTime
        /\ r.g.game_duration_seconds = NoTime
        /\ r.g.first_flip_at = NoTime
        /\ r.g.first_delivery_at = NoTime
        /\ r.g.lead_time_seconds = NoTime
        /\ r.g.players = players
        /\ r.g.spectators = spectators
        /\ r.g.host = host
        /\ r.g.round_type = round_type
        /\ r.g.required_players = required_players
        /\ r.g.selected_batch_size = selected_batch_size
        /\ Len(players) >= required_players =>
              /\ s.g.state = ACTIVE
              /\ s.g.current_round = 1
              /\ s.g.started_at = now
              /\ s.g.player_coins[s.g.players[1]] = Repeat(FALSE, TOTAL_COINS)

\* C19 happens: a running two-round game with a recorded round, a send history
\* and a spectator is reset by the host, and has the players to start again.
ResetReturnsToLobbyWitness ==
    /\ state = ACTIVE
    /\ round_type = TWO_ROUNDS
    /\ round_results # <<>>
    /\ started_at # NoTime
    /\ \E p \in DOMAIN sent_coins : sent_coins[p] # <<>>
    /\ Len(players) >= required_players
    /\ reset_game_endpoint(G, HostSecret).status = 200
    /\ start_game(reset_game_endpoint(G, HostSecret).g, HostSecret).status = 200

\* C20: when a spectator is promoted to player while the state is Active, the
\* ledger is re-initialized: afterwards chain position 0 holds all units
\* inactive, every other roster player including the promoted one holds none,
\* and every send history is empty.
PromotionReinitializesLedger ==
    state = ACTIVE =>
        \A u \in Users :
            LET r == change_role(G, u, "player")
                roster == {r.g.players[i] : i \in 1..Len(r.g.players)}
            IN  r.status = 200 =>
                    /\ r.g.players[Len(r.g.players)] = u
                    /\ DOMAIN r.g.player_coins = roster
                    /\ DOMAIN r.g.sent_coins = roster
                    /\ \A i \in 1..Len(r.g.players) :
                          /\ r.g.player_coins[r.g.players[i]] =
                                 IF i = 1 THEN Repeat(FALSE, TOTAL_COINS) ELSE <<>>
                          /\ r.g.sent_coins[r.g.players[i]] = <<>>

\* the finish predicate as the specification words it: the player is on the
\* roster, holds no units, and every chain-earlier player holds no units
FinishedIn(g, p) ==
    /\ InSeq(p, g.players)
    /\ p \in DOMAIN g.player_coins
    /\ g.player_coins[p] = <<>>
    /\ \A i \in 1..IndexOf(p, g.players) :
          g.players[i] \in DOMAIN g.player_coins => g.player_coins[g.players[i]] = <<>>

FinishPredicate(p) == FinishedIn(G, p)

\* C21: whenever a player's timer has ended_at set during a round, that player
\* satisfies the finish predicate; no timer is ended for a player who still
\* holds units or has an upstream player who does.
EndedTimerMeansFinished ==
    state = ACTIVE =>
        \A i \in 1..Len(players) :
            (players[i] \in DOMAIN player_timers
                /\ player_timers[players[i]].ended_at # NoTime)
              => FinishPredicate(players[i])

\* the roster players of g whose timer was started, who satisfy the finish
\* predicate, and whose timer is still running
FinishedButRunning(g) ==
    {p \in DOMAIN g.player_timers :
        /\ g.player_timers[p].started_at # NoTime
        /\ FinishedIn(g, p)
        /\ g.player_timers[p].ended_at = NoTime}

\* C22: after every successful flip or send, every roster player whose timer
\* has been started and who satisfies the finish predicate has an ended timer.
FinishedTimersAreEnded ==
    \A u \in Users :
        /\ \A i \in CoinIndexes :
              process_flip(G, u, i).resp.success
                  => FinishedButRunning(process_flip(G, u, i).g) = {}
        /\ process_send(G, u).resp.success
              => FinishedButRunning(process_send(G, u).g) = {}

\* C22 happens: the middle player of three, whose timer is running, sends the
\* last units they hold and is finished while the round goes on.
FinishedTimersAreEndedWitness ==
    /\ state = ACTIVE
    /\ Len(players) = 3
    /\ players[2] \in DOMAIN player_timers
    /\ player_timers[players[2]].started_at # NoTime
    /\ player_timers[players[2]].ended_at = NoTime
    /\ process_send(G, players[2]).resp.success
    /\ ~process_send(G, players[2]).resp.round_complete
    /\ FinishedIn(process_send(G, players[2]).g, players[2])
    /\ process_send(G, players[2]).g.player_timers[players[2]].ended_at # NoTime

\* the start time of p's timer in g, NoTime when p has no timer
StartedAt(g, p) ==
    IF p \in DOMAIN g.player_timers THEN g.player_timers[p].started_at ELSE NoTime

\* p has flipped a unit since the ledger was last initialized: p holds a
\* flipped unit or has sent one on
FlippedThisRound(g, p) ==
    \/ p \in DOMAIN g.player_coins /\ CountHeads(g.player_coins[p]) > 0
    \/ /\ p \in DOMAIN g.sent_coins
       /\ \E k \in 1..Len(g.sent_coins[p]) : g.sent_coins[p][k].count > 0

\* C23: a player's timer started_at is set by that player's first successful
\* flip of the round and changed by no later flip or send; first_flip_at is
\* set by the first successful flip of any player in the round and changed by
\* no later flip.
TimerStartsAtFirstFlip ==
    /\ state = ACTIVE =>
          /\ \A i \in 1..Len(players) :
                FlippedThisRound(G, players[i]) => StartedAt(G, players[i]) # NoTime
          /\ (\E i \in 1..Len(players) : FlippedThisRound(G, players[i]))
                => first_flip_at # NoTime
    /\ \A u \in Users :
          /\ \A i \in CoinIndexes :
                LET r == process_flip(G, u, i)
                IN  r.resp.success =>
                        /\ StartedAt(r.g, u) =
                               IF StartedAt(G, u) = NoTime THEN now ELSE StartedAt(G, u)
                        /\ \A p \in Users \ {u} : StartedAt(r.g, p) = StartedAt(G, p)
                        /\ r.g.first_flip_at =
                               IF first_flip_at = NoTime THEN now ELSE first_flip_at
          /\ LET s == process_send(G, u)
             IN  s.resp.success =>
                     /\ \A p \in Users : StartedAt(s.g, p) = StartedAt(G, p)
                     /\ s.g.first_flip_at = first_flip_at

\* C23 happens: a player whose timer started at an earlier time flips again,
\* after another player's first flip of the round.
TimerStartsAtFirstFlipWitness ==
    /\ state = ACTIVE
    /\ \E u \in Users, i \in CoinIndexes :
          /\ StartedAt(G, u) # NoTime
          /\ StartedAt(G, u) < now
          /\ first_flip_at # NoTime
          /\ first_flip_at < StartedAt(G, u)
          /\ process_flip(G, u, i).resp.success

\* the lifecycle states of GameState
GameStates == {LOBBY, ACTIVE, ROUND_COMPLETE, RESULTS}

\* C24: flip and send are rejected with success false and an error reason
\* whenever the lifecycle state is not Active or the username is not in the
\* player roster, and the rejection leaves ledger, send history, timers,
\* round_results and last_active_at (here: the whole session) unchanged.  The
\* session is never in RoundComplete or Results, so the four operations are
\* applied to the session with its state field set to each of the four states.
InactiveOrStrangerRejected ==
    \A st \in GameStates, u \in Users :
        LET g0 == [G EXCEPT !.state = st]
            refused(r) == /\ ~r.resp.success
                          /\ r.resp.error # ""
                          /\ r.g = g0
        IN  (st # ACTIVE \/ ~InSeq(u, players)) =>
                /\ refused(process_send(g0, u))
                /\ refused(send_batch_endpoint(g0, u))
                /\ \A i \in CoinIndexes :
                      /\ refused(process_flip(g0, u, i))
                      /\ refused(flip_coin_endpoint(g0, u, i))

\* C24 happens: in an Active round a user who is not on the roster, but whose
\* ledger entry still holds an unflipped unit, asks to flip it and is refused.
InactiveOrStrangerRejectedWitness ==
    /\ state = ACTIVE
    /\ players # <<>>
    /\ \E u \in Users :
          /\ ~InSeq(u, players)
          /\ u \in DOMAIN player_coins
          /\ player_coins[u] # <<>>
          /\ ~player_coins[u][1]
          /\ ~process_flip(G, u, 0).resp.success
          /\ process_flip(G, u, 0).resp.error = "Player not in game"

\* C25: start, start_next and reset addressed to a room id that is not in the
\* registry end in a NotFound rejection (404) for every value of the supplied
\* secret; none of them ends in an unhandled exception (500).
MissingRoomIsNotFound ==
    Room \notin games =>
        \A op \in {"start", "next_round", "reset"}, c \in Cookies :
            MissingRoomStatus(op, c) = 404

\* C26: configure_round, start, start_next and reset leave the session
\* entirely unchanged and report Unauthorized (403) whenever the supplied
\* secret is missing or differs from the room's host secret.
WrongSecretIsUnauthorized ==
    \A c \in Cookies \ {HostSecret} :
        LET unauthorized(r) == r.status = 403 /\ r.g = G
        IN  /\ \A rt \in RoundTypes, rp \in AllRequiredPlayers, sbs \in AllBatchSizes :
                  unauthorized(set_round_configuration(G, rt, rp, sbs, c))
            /\ unauthorized(start_game(G, c))
            /\ unauthorized(start_next_round_endpoint(G, c))
            /\ unauthorized(reset_game_endpoint(G, c))

\* C27: after a sweep, a room whose last_active_at is older than the
\* room-inactivity threshold is absent from the game registry, the connection
\* registry and the online-user registry, and a room whose last_active_at is
\* within the threshold is still in the game registry.  Stated of the sweep
\* run in the current state.
SweepEvictsOldRooms ==
    LET old == now - last_active_at > ROOM_INACTIVITY_THRESHOLD
    IN  /\ old => /\ Room \notin cleanup_games
                  /\ Room \notin DOMAIN cleanup_rooms
                  /\ Room \notin DOMAIN cleanup_online_users
        /\ (~old /\ Room \in games) => Room \in cleanup_games

\* C29: an evicted room is never resurrected: once the room is out of the
\* game registry, no step re-creates an entry for it in the game registry, the
\* connection registry or the online-user registry.
NoResurrection ==
    [][Room \notin games =>
          /\ Room \notin games'
          /\ Room \in DOMAIN rooms' => Room \in DOMAIN rooms
          /\ Room \in DOMAIN online_users' => Room \in DOMAIN online_users]_vars

\* C30: mutations of one room are serialized: a flip or send that has passed
\* its checks still finds the room in the registry and the acting player on
\* the roster when it acts, and does not end in an exception (500).
ValidatedActorStaysOnRoster ==
    in_flight.op \in {"flip", "send"} =>
        /\ Room \in games
        /\ state = ACTIVE
        /\ InSeq(in_flight.username, players)
        /\ in_flight.op = "send" => send_after_checks(G, in_flight.username).status # 500

\* the time of p's last accepted flip or send, for a roster player p who holds
\* no units and has sent some: every unit p flipped has been sent on, so the
\* last batch p sent is the last thing p did.  (In SpecRace players join in
\* Lobby only, so no join is later than that.)
HasActed(p) ==
    /\ p \in DOMAIN player_coins
    /\ player_coins[p] = <<>>
    /\ p \in DOMAIN sent_coins
    /\ sent_coins[p] # <<>>

LastActionAt(p) == sent_coins[p][Len(sent_coins[p])].timestamp

\* C28: a sweep removes from the roster a player whose own inactivity exceeds
\* the player threshold, without removing the room and without removing the
\* players of the room who acted within the threshold.  Stated of the sweep run
\* in the current state.
SweepEvictsIdlePlayers ==
    (state = ACTIVE /\ Room \in games /\ in_flight = NoRequest) =>
        \A i \in 1..Len(players) :
            LET p == players[i]
                idle == now - LastActionAt(p)
            IN  HasActed(p) =>
                    /\ idle > PLAYER_INACTIVITY_THRESHOLD
                          => ~InSeq(p, cleanup_players(G).players)
                    /\ idle < PLAYER_INACTIVITY_THRESHOLD
                          => InSeq(p, cleanup_players(G).players)
                    /\ now - last_active_at <= ROOM_INACTIVITY_THRESHOLD
                          => Room \in cleanup_games

\* C31: when the connection of the host closes while the game exists, the
\* game is removed from the games registry and the room id from the connection
\* and online-user registries; the disconnect of a connection whose username
\* is not the host leaves the games registry as it was.
HostDisconnectDestroys ==
    \A u \in RaceClients :
        (Room \in DOMAIN rooms /\ u \in rooms[Room]) =>
            LET d == handle_disconnect(u)
            IN  /\ (Room \in games /\ u = host) =>
                       /\ Room \notin d.games
                       /\ Room \notin DOMAIN d.rooms
                       /\ Room \notin DOMAIN d.online_users
                /\ u # host => d.games = games

\* the host and another user are connected to a room whose game exists
HostDisconnectDestroysWitness ==
    /\ Room \in games
    /\ Room \in DOMAIN rooms
    /\ host \in rooms[Room]
    /\ \E u \in rooms[Room] : u # host
    /\ Room \in DOMAIN online_users

\* the send history of h extends the send history of g, and h's total_completed
\* is at least g's
HistoryExtends(g, h) ==
    /\ \A p \in DOMAIN g.sent_coins :
           /\ p \in DOMAIN h.sent_coins
           /\ Len(h.sent_coins[p]) >= Len(g.sent_coins[p])
           /\ SubSeq(h.sent_coins[p], 1, Len(g.sent_coins[p])) = g.sent_coins[p]
    /\ get_total_completed_coins(h) >= get_total_completed_coins(g)

\* C32: between two ledger initializations (the session is Active and the
\* request does not initialize the ledger) a flip, a send, a join and a
\* promotion leave every player's send history extended and total_completed
\* no smaller than before.
HistoryOnlyGrows ==
    state = ACTIVE =>
        \A u \in Users :
            /\ \A i \in CoinIndexes : HistoryExtends(G, flip_coin_endpoint(G, u, i).g)
            /\ HistoryExtends(G, send_batch_endpoint(G, u).g)
            /\ \A sp \in BOOLEAN : HistoryExtends(G, join_game(G, u, sp).g)
            /\ HistoryExtends(G, change_role(G, u, "player").g)

\* C33: whenever the state is Active, the keys of the ledger are exactly the
\* players of the roster.
LedgerMatchesRoster ==
    state = ACTIVE => DOMAIN player_coins = {players[i] : i \in 1..Len(players)}

\* C34: every batch of the send history has a count of at least one unit, and
\* a send by a player who holds no units is rejected and leaves the send
\* history as it was.
SentBatchesArePositive ==
    /\ \A p \in DOMAIN sent_coins :
           \A i \in 1..Len(sent_coins[p]) : sent_coins[p][i].count >= 1
    /\ \A u \in Users :
           (u \in DOMAIN player_coins /\ player_coins[u] = <<>>) =>
               /\ ~send_batch_endpoint(G, u).resp.success
               /\ send_batch_endpoint(G, u).g.sent_coins = sent_coins

\* host, players and spectators are pairwise disjoint without repetition, the
\* host precedes every other user, and the roster holds at most MAX_PLAYERS
WellFormedRoster(g) ==
    /\ \A i, j \in 1..Len(g.players) : i # j => g.players[i] # g.players[j]
    /\ \A i, j \in 1..Len(g.spectators) : i # j => g.spectators[i] # g.spectators[j]
    /\ \A i \in 1..Len(g.players) : ~InSeq(g.players[i], g.spectators)
    /\ ~InSeq(g.host, g.players)
    /\ ~InSeq(g.host, g.spectators)
    /\ g.host = NoUser => (g.players = <<>> /\ g.spectators = <<>>)
    /\ Len(g.players) <= MAX_PLAYERS

\* a user the room has not seen, who asks to join when the roster is full
Latecomer == "d"

\* C35: the roster is well formed in every state and stays so under one more
\* join or role change; the first user to join becomes the host; with
\* MAX_PLAYERS players a join as player is accepted as a spectator and the
\* promotion of that spectator is rejected without any change.
RosterWellFormed ==
    /\ WellFormedRoster(G)
    /\ \A u \in Users \cup {Latecomer} :
           /\ \A sp \in BOOLEAN :
                  /\ WellFormedRoster(join_game(G, u, sp).g)
                  /\ host = NoUser => join_game(G, u, sp).g.host = u
           /\ \A r \in Roles : WellFormedRoster(change_role(G, u, r).g)
    /\ Len(players) = MAX_PLAYERS =>
           LET j == join_game(G, Latecomer, FALSE)
               c == change_role(j.g, Latecomer, "player")
           IN  /\ j.status = 200
               /\ j.g.players = players
               /\ InSeq(Latecomer, j.g.spectators)
               /\ c.status = 400
               /\ c.g = j.g

\* the roster is full after a promotion
RosterWellFormedWitness ==
    /\ Len(players) = MAX_PLAYERS
    /\ host # NoUser
    /\ role_changes > 0

\* C36: whenever the state is Lobby, current_round is 0, round_results is
\* empty, the ledger and the send history are empty and started_at is unset;
\* and started_at is unset exactly when the state is Lobby.
LobbyIsPristine ==
    /\ state = LOBBY =>
           /\ current_round = 0
           /\ round_results = <<>>
           /\ DOMAIN player_coins = {}
           /\ DOMAIN sent_coins = {}
           /\ started_at = NoTime
    /\ validate_game_not_started(G) <=> state = LOBBY

\* a configured room in Lobby with its host and enough players to start
LobbyIsPristineWitness ==
    /\ state = LOBBY
    /\ host # NoUser
    /\ round_type \in RoundTypes
    /\ Len(players) >= required_players
    /\ validate_game_not_started(G)

\* C37: every room id of the games registry is a room id of the connection
\* registry, so a connection to a room whose game exists passes the
\* "room does not exist" check of websocket_endpoint.
GameRoomsAreConnectable ==
    Room \in games => Room \in DOMAIN rooms

\* a round is being played: the session is Active with at least
\* required_players players and fewer than TOTAL_COINS units completed
RoundInProgress ==
    /\ state = ACTIVE
    /\ Len(players) >= required_players
    /\ get_total_completed_coins(G) < TOTAL_COINS

\* some flip is accepted, or some send is accepted and moves a unit
ProgressEnabled ==
    \/ \E u \in Users, i \in CoinIndexes : flip_coin_endpoint(G, u, i).resp.success
    \/ \E u \in Users :
           /\ send_batch_endpoint(G, u).resp.success
           /\ send_batch_endpoint(G, u).g.player_coins # player_coins

\* C38: round termination.  With the roster fixed at the start of the round,
\* while fewer than TOTAL_COINS units are completed some flip or unit-moving
\* send is accepted, and when the players keep taking such actions the round
\* reaches total_completed = TOTAL_COINS, for each batch size a sequence starts
\* a round with.
RoundTerminates ==
    /\ [](RoundInProgress => ProgressEnabled)
    /\ (state = ACTIVE ~> get_total_completed_coins(G) = TOTAL_COINS)

\* a round played unit by unit along the full chain has completed every unit
RoundTerminatesWitness ==
    /\ state = ACTIVE
    /\ batch_size = 1
    /\ Len(players) = MAX_PLAYERS
    /\ get_total_completed_coins(G) = TOTAL_COINS

====
